---- MODULE Spec2Model ----
(***************************************************************************)
(* Ukkonen suffix tree construction, suffix index annotation and the       *)
(* substring query of src/tree/suffix_tree/introduction.py.                *)
(*                                                                         *)
(* Heap objects are kept in two arenas: nodes (SuffixTreeNode objects, by  *)
(* creation order, id 0 is None) and ptrs (Pointer objects, id -> value).  *)
(* Text and pattern positions are 0-based as in the source.                *)
(***************************************************************************)
EXTENDS Integers, Sequences, FiniteSets, TLC

\* ---------------------------------------------------------------- bounds
MaxLen == 5
MaxPat == 2
MaxBuilds == 2

\* symbol codes: ord('#'), ord('a'), ord('b')
HASH == 35
Sigma == {HASH, 97, 98}

MAX_CHAR == 256

None == 0

VARIABLES text, size, root, nodes, ptrs, leaf_end,
          activeNode, activeEdge, activeLength, remainingSuffixCount,
          last_new_node, pos, pc, qpat, qres, hist

vars == <<text, size, root, nodes, ptrs, leaf_end,
          activeNode, activeEdge, activeLength, remainingSuffixCount,
          last_new_node, pos, pc, qpat, qres, hist>>

tree == <<text, size, root, nodes, ptrs, leaf_end,
          activeNode, activeEdge, activeLength, remainingSuffixCount>>

\* ------------------------------------------------------------- inputs
RECURSIVE SeqsOfLen(_)
SeqsOfLen(n) ==
    IF n = 0 THEN {<<>>}
    ELSE {Append(s, c) : s \in SeqsOfLen(n - 1), c \in Sigma}

SeqsUpTo(n) == UNION {SeqsOfLen(k) : k \in 0..n}

Texts == SeqsUpTo(MaxLen)
Patterns == SeqsUpTo(MaxPat)

\* ------------------------------------------------------------ helpers
\* text[i] for a Python str: negative i counts from the end, anything
\* outside the string raises IndexError (InRange is FALSE)
InRange(s, i) == (i >= 0 /\ i < Len(s)) \/ (i < 0 /\ Len(s) + i >= 0)
At(s, i) == IF i >= 0 THEN s[i + 1] ELSE s[Len(s) + i + 1]

NoChildren == [c \in Sigma |-> None]

SuffixTreeNode(start, end, link) ==
    [start |-> start, end |-> end, children |-> NoChildren,
     suffixLink |-> link, suffixIndex |-> -1]

edge_length(ns, ps, rt, n) ==
    IF n = rt THEN 0 ELSE ps[ns[n].end] - ns[n].start + 1

\* ------------------------------------------------------ construction
Init ==
    /\ text \in Texts
    /\ size = -1
    /\ root = None
    /\ nodes = <<>>
    /\ ptrs = <<-1>>
    /\ leaf_end = 1
    /\ activeNode = None
    /\ activeEdge = -1
    /\ activeLength = 0
    /\ remainingSuffixCount = 0
    /\ last_new_node = None
    /\ pos = -1
    /\ pc = "new"
    /\ qpat = <<>>
    /\ qres = [kind |-> "none", value |-> 0]
    /\ hist = [builds |-> 0, first |-> {}]

\* build_suffix_tree, up to the head of the for loop
BuildBody ==
    /\ size' = Len(text)
    /\ ptrs' = Append(ptrs, -1)
    /\ nodes' = Append(nodes, SuffixTreeNode(-1, Len(ptrs) + 1, root))
    /\ root' = Len(nodes) + 1
    /\ activeNode' = Len(nodes) + 1
    /\ pos' = -1
    /\ pc' = "for"
    /\ UNCHANGED <<text, leaf_end, activeEdge, activeLength,
                   remainingSuffixCount, last_new_node, qpat, qres>>

\* the first call of build_suffix_tree on the object; hist.builds counts the
\* calls
BuildStart ==
    /\ pc = "new"
    /\ BuildBody
    /\ hist' = [hist EXCEPT !.builds = 1]

\* extend_suffix_tree(pos), up to the head of the while loop
PhaseStart ==
    /\ pc = "for"
    /\ pos + 1 < size
    /\ pos' = pos + 1
    /\ ptrs' = [ptrs EXCEPT ![leaf_end] = pos + 1]
    /\ remainingSuffixCount' = remainingSuffixCount + 1
    /\ last_new_node' = None
    /\ pc' = "while"
    /\ UNCHANGED <<text, size, root, nodes, leaf_end, activeNode, activeEdge,
                   activeLength, qpat, qres, hist>>

\* activeEdge after APCFALZ
CurEdge == IF activeLength = 0 THEN pos ELSE activeEdge
CurSym == At(text, CurEdge)
Nextt == nodes[activeNode].children[CurSym]

\* the counter is decremented only inside the APCFER2C1 branch
ReHome_decrInBranch(ns) ==
    /\ IF activeNode = root /\ activeLength > 0
       THEN /\ remainingSuffixCount' = remainingSuffixCount - 1
            /\ activeLength' = activeLength - 1
            /\ activeEdge' = pos - (remainingSuffixCount - 1) + 1
            /\ activeNode' = activeNode
            /\ pc' = IF remainingSuffixCount - 1 > 0 THEN "while" ELSE "for"
       ELSE /\ remainingSuffixCount' = remainingSuffixCount
            /\ activeNode' = IF activeNode # root
                             THEN ns[activeNode].suffixLink ELSE activeNode
            /\ activeEdge' = CurEdge
            /\ activeLength' = activeLength
            /\ pc' = "while"

\* the tail of one iteration of the while loop: decrement the counter and
\* re-home the active point (APCFER2C1 / APCFER2C2); ns is the node arena
\* after the extension
ReHome(ns) ==
    /\ remainingSuffixCount' = remainingSuffixCount - 1
    /\ IF activeNode = root /\ activeLength > 0
       THEN /\ activeLength' = activeLength - 1
            /\ activeEdge' = pos - (remainingSuffixCount - 1) + 1
            /\ activeNode' = activeNode
       ELSE IF activeNode # root
       THEN /\ activeNode' = ns[activeNode].suffixLink
            /\ activeEdge' = CurEdge
            /\ activeLength' = activeLength
       ELSE /\ activeNode' = activeNode
            /\ activeEdge' = CurEdge
            /\ activeLength' = activeLength
    /\ pc' = IF remainingSuffixCount - 1 > 0 THEN "while" ELSE "for"

\* a waiting internal node never gets its suffix link
SetLink_never(ns, from, to) == ns

SetLink(ns, from, to) ==
    IF from # None THEN [ns EXCEPT ![from].suffixLink = to] ELSE ns

\* Extension Rule 2, new leaf directly under activeNode
NewLeaf ==
    /\ pc = "while"
    /\ remainingSuffixCount > 0
    /\ Nextt = None
    /\ LET leaf == Len(nodes) + 1
           ns1 == Append([nodes EXCEPT ![activeNode].children[CurSym] = leaf],
                         SuffixTreeNode(pos, leaf_end, root))
           ns2 == SetLink(ns1, last_new_node, activeNode)
       IN /\ nodes' = ns2
          /\ last_new_node' = None
          /\ ReHome(ns2)
    /\ UNCHANGED <<text, size, root, ptrs, leaf_end, pos, qpat, qres, hist>>

\* walk_down that reports a descent without moving the active point
walk_down_stuck(ae, currNode) ==
    [ret |-> IF activeLength >= edge_length(nodes, ptrs, root, currNode)
             THEN 1 ELSE 0,
     activeEdge |-> ae, activeLength |-> activeLength,
     activeNode |-> activeNode]

\* walk_down that forgets to advance activeEdge
walk_down_noEdge(ae, currNode) ==
    IF activeLength >= edge_length(nodes, ptrs, root, currNode)
    THEN [ret |-> 1,
          activeEdge |-> ae,
          activeLength |-> activeLength
                             - edge_length(nodes, ptrs, root, currNode),
          activeNode |-> currNode]
    ELSE [ret |-> 0, activeEdge |-> ae, activeLength |-> activeLength,
          activeNode |-> activeNode]

\* walk_down(currNode), called with activeEdge = ae: the value returned and
\* the active point it leaves
walk_down(ae, currNode) ==
    IF activeLength >= edge_length(nodes, ptrs, root, currNode)
    THEN [ret |-> 1,
          activeEdge |-> ae + edge_length(nodes, ptrs, root, currNode),
          activeLength |-> activeLength
                             - edge_length(nodes, ptrs, root, currNode),
          activeNode |-> currNode]
    ELSE [ret |-> 0, activeEdge |-> ae, activeLength |-> activeLength,
          activeNode |-> activeNode]

\* walk_down(nextt) returned 1: continue
WalkDown ==
    /\ pc = "while"
    /\ remainingSuffixCount > 0
    /\ Nextt # None
    /\ walk_down(CurEdge, Nextt).ret = 1
    /\ activeEdge' = walk_down(CurEdge, Nextt).activeEdge
    /\ activeLength' = walk_down(CurEdge, Nextt).activeLength
    /\ activeNode' = walk_down(CurEdge, Nextt).activeNode
    /\ UNCHANGED <<text, size, root, nodes, ptrs, leaf_end,
                   remainingSuffixCount, last_new_node, pos, pc, qpat, qres, hist>>

\* Rule 3 that leaves activeLength as it is
APCFER3_same(al) == al

\* activeLength after Extension Rule 3
APCFER3(al) == al + 1

\* Extension Rule 3: break
Rule3 ==
    /\ pc = "while"
    /\ remainingSuffixCount > 0
    /\ Nextt # None
    /\ walk_down(CurEdge, Nextt).ret = 0
    /\ At(text, nodes[Nextt].start + activeLength) = At(text, pos)
    /\ IF last_new_node # None /\ activeNode # root
       THEN /\ nodes' = SetLink(nodes, last_new_node, activeNode)
            /\ last_new_node' = None
       ELSE UNCHANGED <<nodes, last_new_node>>
    /\ activeEdge' = CurEdge
    /\ activeLength' = APCFER3(activeLength)
    /\ pc' = "for"
    /\ UNCHANGED <<text, size, root, ptrs, leaf_end, activeNode,
                   remainingSuffixCount, pos, qpat, qres, hist>>

\* the split edge is one symbol too long
SplitEndValue_long(start) == start + activeLength

\* split_end.value, for the edge starting at start
SplitEndValue(start) == start + activeLength - 1

\* the new leaf under a split shares the end Pointer built for the split
SplitLeafEnd_shared(split_end) == split_end

\* the end Pointer handed to the new leaf under a split
SplitLeafEnd(split_end) == leaf_end

\* the old node is advanced but not hung under the split
SplitChildren_dropOld(ns, split, leaf, nx, newstart) ==
    [ns EXCEPT ![split].children[At(text, pos)] = leaf,
               ![nx].start = newstart]

\* the old node is hung under the symbol its edge started with before the
\* split
SplitChildren_staleKey(ns, split, leaf, nx, newstart) ==
    LET ns3 == [ns EXCEPT ![split].children[At(text, pos)] = leaf]
        ns4 == [ns3 EXCEPT ![split].children[At(text, ns[nx].start)] = nx]
    IN [ns4 EXCEPT ![nx].start = newstart]

\* the two children of a split: the new leaf under text[pos], the old node,
\* advanced by activeLength, under its new first symbol
SplitChildren(ns, split, leaf, nx, newstart) ==
    LET ns3 == [ns EXCEPT ![split].children[At(text, pos)] = leaf]
        ns4 == [ns3 EXCEPT ![nx].start = newstart]
    IN [ns4 EXCEPT ![split].children[At(text, newstart)] = nx]

\* Extension Rule 2, new internal node and new leaf
Split ==
    /\ pc = "while"
    /\ remainingSuffixCount > 0
    /\ Nextt # None
    /\ walk_down(CurEdge, Nextt).ret = 0
    /\ At(text, nodes[Nextt].start + activeLength) # At(text, pos)
    /\ LET nx == Nextt
           split_end == Len(ptrs) + 1
           split == Len(nodes) + 1
           leaf == Len(nodes) + 2
           newstart == nodes[nx].start + activeLength
           ns1 == Append(Append(nodes,
                      SuffixTreeNode(nodes[nx].start, split_end, root)),
                      SuffixTreeNode(pos, SplitLeafEnd(split_end), None))
           ns2 == [ns1 EXCEPT ![activeNode].children[CurSym] = split]
           ns5 == SplitChildren(ns2, split, leaf, nx, newstart)
           ns6 == SetLink(ns5, last_new_node, split)
       IN /\ ptrs' = Append(ptrs, SplitEndValue(nodes[nx].start))
          /\ nodes' = ns6
          /\ last_new_node' = split
          /\ ReHome(ns6)
    /\ UNCHANGED <<text, size, root, leaf_end, pos, qpat, qres, hist>>

\* ---------------------------------------------------------- annotation
\* the trim loop of a leaf: i runs over range(n.start, n.end.value + 1), the
\* range being fixed before the first iteration
RECURSIVE TrimLoop(_, _, _, _)
TrimLoop(st, n, i, hi) ==
    IF i > hi THEN st
    ELSE IF ~InRange(text, i) THEN [st EXCEPT !.ok = FALSE]
    ELSE IF At(text, i) = HASH
         THEN TrimLoop([st EXCEPT !.ps = Append(st.ps, i),
                                  !.ns[n].end = Len(st.ps) + 1],
                       n, i + 1, hi)
         ELSE TrimLoop(st, n, i + 1, hi)

HasChildren(ns, n) == \E c \in Sigma : ns[n].children[c] # None

\* the leaf flag is never cleared
LeafFlag_always(ns, n) == TRUE

\* the flag "leaf" after the loop over the child slots
LeafFlag(ns, n) == ~HasChildren(ns, n)

\* off by one in the suffix index
SuffixIndexOf_short(label_height) == size - label_height - 1

SuffixIndexOf(label_height) == size - label_height

Min(S) == CHOOSE x \in S : \A y \in S : x <= y

RECURSIVE set_suffix_index_by_dfs(_, _, _)
RECURSIVE DfsChildren(_, _, _, _)

\* the loop "for i in range(MAX_CHAR)" over the child slots still to visit
DfsChildren(st, n, label_height, cs) ==
    IF cs = {} \/ ~st.ok THEN st
    ELSE LET c == Min(cs)
             ch == st.ns[n].children[c]
             st1 == IF ch = None THEN st
                    ELSE set_suffix_index_by_dfs(st, ch,
                           label_height + edge_length(st.ns, st.ps, root, ch))
         IN DfsChildren(st1, n, label_height, cs \ {c})

set_suffix_index_by_dfs(st, n, label_height) ==
    IF n = None THEN st
    ELSE LET st1 == DfsChildren(st, n, label_height, Sigma)
         IN IF ~st1.ok THEN st1
            ELSE IF ~LeafFlag(st1.ns, n) THEN st1
            ELSE LET st2 == TrimLoop(st1, n, st1.ns[n].start,
                                     st1.ps[st1.ns[n].end])
                 IN IF ~st2.ok THEN st2
                    ELSE [st2 EXCEPT
                            !.ns[n].suffixIndex = SuffixIndexOf(label_height)]

\* build_suffix_tree after the for loop
Annotate ==
    /\ pc = "for"
    /\ pos + 1 >= size
    /\ LET st == set_suffix_index_by_dfs(
                    [ns |-> nodes, ps |-> ptrs, ok |-> TRUE], root, 0)
       IN /\ nodes' = st.ns
          /\ ptrs' = st.ps
          /\ pc' = IF st.ok THEN "built" ELSE "raised"
    /\ UNCHANGED <<text, size, root, leaf_end, activeNode, activeEdge,
                   activeLength, remainingSuffixCount, last_new_node, pos,
                   qpat, qres, hist>>

\* ---------------------------------------------------------------- query
Return(v) == [kind |-> "return", value |-> v]
Raise == [kind |-> "raise", value |-> 0]

RECURSIVE traverse_edge(_, _, _, _)
traverse_edge(m_string, idx, k, end) ==
    IF k <= end /\ idx < Len(m_string)
    THEN IF ~InRange(text, k) THEN Raise
         ELSE IF At(text, k) # At(m_string, idx) THEN Return(-1)
         ELSE traverse_edge(m_string, idx + 1, k + 1, end)
    ELSE IF idx >= Len(m_string) THEN Return(1)
    ELSE Return(0)

\* children[ord(c)] of a node: the list has MAX_CHAR slots
ChildAt(n, c) ==
    IF c \in Sigma THEN nodes[n].children[c] ELSE None

RECURSIVE do_traversal(_, _, _)
do_traversal(n, m_string, idx) ==
    IF n = None THEN Return(-1)
    ELSE LET res == IF nodes[n].start # -1
                    THEN traverse_edge(m_string, idx, nodes[n].start,
                                       ptrs[nodes[n].end])
                    ELSE Return(0)
             idx2 == idx + edge_length(nodes, ptrs, root, n)
         IN IF nodes[n].start # -1 /\ res # Return(0) THEN res
            ELSE IF ~InRange(m_string, idx2) THEN Raise
            ELSE IF At(m_string, idx2) \notin 0..(MAX_CHAR - 1) THEN Raise
            ELSE IF ChildAt(n, At(m_string, idx2)) # None
                 THEN do_traversal(ChildAt(n, At(m_string, idx2)),
                                   m_string, idx2)
                 ELSE Return(-1)

\* a query that caches its answer in the suffixIndex of the root
Query_caching ==
    /\ pc \in {"built", "raised"}
    /\ \E p \in Patterns :
         /\ qpat' = p
         /\ qres' = do_traversal(root, p, 0)
         /\ nodes' = [nodes EXCEPT ![root].suffixIndex = Len(p)]
    /\ UNCHANGED <<text, size, root, ptrs, leaf_end, activeNode,
                   activeEdge, activeLength, remainingSuffixCount,
                   last_new_node, pos, pc, hist>>

\* one call do_traversal(self.root, m_string, 0) on the object left by
\* build_suffix_tree
Query ==
    /\ pc \in {"built", "raised"}
    /\ \E p \in Patterns :
         /\ qpat' = p
         /\ qres' = do_traversal(root, p, 0)
    /\ UNCHANGED <<text, size, root, nodes, ptrs, leaf_end, activeNode,
                   activeEdge, activeLength, remainingSuffixCount,
                   last_new_node, pos, pc, hist>>

Next ==
    \/ BuildStart
    \/ PhaseStart
    \/ NewLeaf
    \/ WalkDown
    \/ Rule3
    \/ Split
    \/ Annotate
    \/ Query

Spec == Init /\ [][Next]_vars

\* the statements of build_suffix_tree up to the end of its for loop run one
\* after the other without suspension: a step of the loops that can be
\* taken is taken
Construct ==
    \/ BuildStart
    \/ PhaseStart
    \/ NewLeaf
    \/ WalkDown
    \/ Rule3
    \/ Split

FairSpec == Spec /\ WF_vars(Construct)


\* ------------------------------------------------- vocabulary of the claims
Nodes == 1..Len(nodes)

Kids(n) == {nodes[n].children[c] : c \in Sigma} \ {None}

RECURSIVE ReachFrom(_)
ReachFrom(S) ==
    LET S2 == S \cup UNION {Kids(n) : n \in S}
    IN IF S2 = S THEN S ELSE ReachFrom(S2)

\* the nodes reachable from the root through child slots
Reach == IF root = None THEN {} ELSE ReachFrom({root})

\* childless nodes other than the root
Leaves == {n \in Reach : n # root /\ ~HasChildren(nodes, n)}

\* non-root nodes with at least one child
Internals == {n \in Reach : n # root /\ HasChildren(nodes, n)}

EndVal(n) == ptrs[nodes[n].end]

\* the symbols text[start..end] of the edge into n
Label(n) == SubSeq(text, nodes[n].start + 1, EndVal(n) + 1)

Parent(n) == CHOOSE q \in Nodes : n \in Kids(q)

RECURSIVE PathStr(_)
PathStr(n) == IF n = root THEN <<>> ELSE PathStr(Parent(n)) \o Label(n)

\* T[j:]
Suffix(j) == SubSeq(text, j + 1, Len(text))

Occurs(P, T) ==
    \E i \in 0..(Len(T) - Len(P)) : SubSeq(T, i + 1, i + Len(P)) = P

\* the last symbol of the text occurs nowhere else in it
UniqueSentinel ==
    /\ Len(text) >= 1
    /\ \A i \in 1..(Len(text) - 1) : text[i] # text[Len(text)]

Queried == qres.kind # "none"

\* ------------------------------------------------------------------ claims

\* C1: after build_suffix_tree() on any text, do_traversal(root, P, 0) for a
\* non-empty pattern P returns 1 if P occurs in the text and -1 if it does
\* not ('#' being an ordinary symbol of the text).
C1_QueryDecidesSubstring ==
    (pc = "built" /\ Queried /\ qpat # <<>>) =>
        qres = Return(IF Occurs(qpat, text) THEN 1 ELSE -1)

\* C2: for a text whose last symbol is unique, the built tree has exactly
\* len(T) leaves and their suffixIndex values are 0..len(T)-1, each carried
\* by exactly one leaf.
C2_LeavesAreSuffixes ==
    (pc = "built" /\ UniqueSentinel) =>
        /\ Cardinality(Leaves) = Len(text)
        /\ \A j \in 0..(Len(text) - 1) :
             Cardinality({l \in Leaves : nodes[l].suffixIndex = j}) = 1

\* a built tree of a text of at least four symbols with a unique last symbol
\* and a repeated symbol, so that leaves hang under an internal node
C2_Witness ==
    /\ pc = "built"
    /\ UniqueSentinel
    /\ Len(text) >= 4
    /\ Internals # {}

\* C3: for a text whose last symbol is unique, after construction and
\* annotation the edge labels on the path from the root to a leaf spell
\* exactly the suffix T[suffixIndex:] of that leaf.
C3_LeafPathSpellsSuffix ==
    (pc = "built" /\ UniqueSentinel) =>
        \A l \in Leaves : PathStr(l) = Suffix(nodes[l].suffixIndex)

\* C4: building the tree of the empty text completes, the tree is the root
\* alone, and every non-empty pattern is answered -1.
C4_EmptyText ==
    (Len(text) = 0 /\ pc # "new") =>
        /\ pc # "raised"
        /\ Len(nodes) = 1
        /\ (Queried /\ qpat # <<>>) => qres = Return(-1)

\* C5: on a built tree every pattern, the empty one included, is answered by
\* a normal return of 1 or -1: no exception, and never the internal value 0.
C5_QueryTotalTwoValued ==
    (pc = "built" /\ Queried) => qres \in {Return(1), Return(-1)}

\* C6: at the end of every extension and after construction, every non-root
\* node that has a child has at least two children.
C6_InternalOutDegree ==
    (pc \in {"while", "for", "built"}) =>
        \A n \in Nodes :
            (n # root /\ HasChildren(nodes, n)) => Cardinality(Kids(n)) >= 2

\* inside a phase, right after a split: the new internal node is there with
\* further extensions of the phase still to come
C6_Witness ==
    /\ pc = "while"
    /\ last_new_node # None
    /\ last_new_node \in Internals
    /\ Cardinality(Kids(last_new_node)) = 2

\* C7: during construction every childless non-root node holds the shared
\* leaf_end Pointer as its end, and the value of that Pointer is -1 before
\* the first phase and the phase index from the start of each phase on.
C7_OpenLeavesShareLeafEnd ==
    (pc \in {"new", "for", "while"}) =>
        /\ ptrs[leaf_end] = pos
        /\ \A n \in Nodes :
             (n # root /\ ~HasChildren(nodes, n)) =>
                 /\ nodes[n].end = leaf_end
                 /\ EndVal(n) = pos

\* inside a later phase a leaf made
\* under a split in an earlier phase ends at the current position
C7_Witness ==
    /\ pc = "while"
    /\ pos >= 2
    /\ remainingSuffixCount >= 1
    /\ \E n \in Leaves :
         /\ nodes[n].start < pos
         /\ nodes[n].suffixLink = None
         /\ EndVal(n) = pos

\* C8: a query changes nothing of the SuffixTree object (nodes, Pointers,
\* construction fields), and asking the same pattern again gives the same
\* answer.
C8_QueryIsReadOnly ==
    [][(pc \in {"built", "raised"} /\ pc' = pc) =>
          /\ tree' = tree
          /\ (Queried /\ qpat' = qpat) => qres' = qres]_vars

\* a tree with an internal node has been queried with a pattern that occurs
C8_Witness ==
    /\ pc = "built"
    /\ Internals # {}
    /\ qres = Return(1)
    /\ Len(qpat) = 2

\* C9: after build_suffix_tree() on a non-empty text a node has
\* suffixIndex >= 0 exactly if it has no children.
C9_SuffixIndexIffLeaf ==
    (pc = "built" /\ Len(text) >= 1) =>
        \A n \in Nodes :
            (nodes[n].suffixIndex >= 0) <=> ~HasChildren(nodes, n)

\* a built tree of a text whose last symbol is not unique, with an internal
\* node
C9_Witness ==
    /\ pc = "built"
    /\ ~UniqueSentinel
    /\ Internals # {}
    /\ \E l \in Leaves : nodes[l].suffixIndex = 0

\* C10: at the end of every phase and after construction, the suffixLink of
\* every non-root node with children is set and points to the node whose
\* path from the root spells the node's own path without its first symbol.
C10_SuffixLinksCorrect ==
    ((pc = "for" /\ pos >= 0) \/ pc = "built") =>
        \A n \in Internals :
            /\ nodes[n].suffixLink # None
            /\ nodes[n].suffixLink \in Reach
            /\ PathStr(nodes[n].suffixLink) = Tail(PathStr(n))

\* at the end of a phase an internal node links to another internal node
C10_Witness ==
    /\ pc = "for"
    /\ pos >= 0
    /\ \E n \in Internals : nodes[n].suffixLink \in Internals

\* the positions of '#' in text[start..end] of node n
HashPositions(n) ==
    {i \in nodes[n].start..EndVal(n) : At(text, i) = HASH}

\* C11: the annotation pass leaves a leaf whose label contains '#' with its
\* end at the first '#' of the label, and leaves every other leaf's end
\* value as it was.
C11_TrimAtFirstHash ==
    [][(pc = "for" /\ pc' = "built") =>
          \A n \in Leaves :
              ptrs'[nodes'[n].end] =
                  IF HashPositions(n) = {} THEN EndVal(n)
                  ELSE Min(HashPositions(n))]_vars

\* C12: every phase terminates (the while loop, restarts through walk_down
\* included, reaches the end of the phase) and the build reaches the
\* annotation pass (the for loop of build_suffix_tree runs to its end).
C12_PhasesTerminate ==
    /\ [](pc = "while" => <>(pc = "for"))
    /\ <>(pc = "for" /\ pos + 1 >= size)

\* a phase has ended after its loop restarted through walk_down: the active
\* node is an internal node the loop descended to
C12_Witness ==
    /\ pc = "for"
    /\ pos >= 0
    /\ activeNode \in Internals
    /\ activeLength >= 1

\* the loop body has reached the call walk_down(nextt)
WalkDownCalled ==
    /\ pc = "while"
    /\ remainingSuffixCount > 0
    /\ Nextt # None

KidsIn(ns, n) == {ns[n].children[c] : c \in Sigma} \ {None}

RECURSIVE ReachFromIn(_, _)
ReachFromIn(ns, S) ==
    LET S2 == S \cup UNION {KidsIn(ns, n) : n \in S}
    IN IF S2 = S THEN S ELSE ReachFromIn(ns, S2)

\* the nodes reachable in arena ns from rt through child slots
ReachIn(ns, rt) == IF rt = None THEN {} ELSE ReachFromIn(ns, {rt})

\* C14: during construction a child slot that holds a node is overwritten
\* only by a node that has the old one as a child, every node reachable
\* from the root stays reachable, and the number of reachable nodes never
\* decreases.
C14_NoSubtreeDropped ==
    [][(pc \in {"for", "while"}) =>
          /\ \A n \in Nodes : \A c \in Sigma :
               (nodes[n].children[c] # None
                  /\ nodes'[n].children[c] # nodes[n].children[c]) =>
                   /\ nodes'[n].children[c] # None
                   /\ nodes[n].children[c]
                        \in KidsIn(nodes', nodes'[n].children[c])
          /\ Reach \subseteq ReachIn(nodes', root')
          /\ Cardinality(ReachIn(nodes', root')) >= Cardinality(Reach)]_vars

\* a split has re-attached an older node under a newer internal node, and
\* every node ever created is reachable
C14_Witness ==
    /\ pc \in {"for", "while"}
    /\ \E n \in Internals : \E k \in Kids(n) : k < n
    /\ Reach = Nodes

\* C16: at the end of every phase the string depth of activeNode plus
\* activeLength equals remainingSuffixCount; with remainingSuffixCount = 0
\* the active point is the root with activeLength 0.
C16_ActivePointDepth ==
    (pc = "for" /\ pos >= 0) =>
        /\ activeNode \in Reach
        /\ Len(PathStr(activeNode)) + activeLength = remainingSuffixCount
        /\ remainingSuffixCount = 0 =>
               (activeNode = root /\ activeLength = 0)

\* a phase has ended by Rule 3 below an internal node, with suffixes left
C16_Witness ==
    /\ pc = "for"
    /\ pos >= 0
    /\ activeNode \in Internals
    /\ activeLength >= 1
    /\ remainingSuffixCount >= 2

\* C17: through every phase i the number of leaves plus
\* remainingSuffixCount is i + 1: an extension that decrements the counter
\* adds one leaf, Rule 3 adds no node and keeps the counter.
C17_LeavesPlusRemaining ==
    (pc \in {"for", "while"} /\ pos >= 0) =>
        Cardinality(Leaves) + remainingSuffixCount = pos + 1

\* a phase has ended by Rule 3 after extensions that added leaves
C17_Witness ==
    /\ pc = "for"
    /\ pos >= 2
    /\ remainingSuffixCount >= 1
    /\ last_new_node # None
    /\ Cardinality(Leaves) >= 2

\* C18: after every extension and after annotation, a node in child slot c
\* has an edge whose first symbol is c.
C18_ChildKeyedByFirstSymbol ==
    (pc \in {"for", "while", "built"}) =>
        \A n \in Nodes : \A c \in Sigma :
            nodes[n].children[c] # None =>
                At(text, nodes[nodes[n].children[c]].start) = c

\* a split has hung an advanced old node and a new leaf under an internal
\* node
C18_Witness ==
    /\ pc \in {"for", "while"}
    /\ \E n \in Internals : \E k \in Kids(n) :
          k < n /\ nodes[k].start >= 1

\* the non-empty strings spelled from the root along the edges
Spelled ==
    UNION {{SubSeq(PathStr(n), 1, k) : k \in 1..Len(PathStr(n))} :
              n \in Reach \ {root}}

\* the non-empty substrings of text[0..i]
SubstringsUpTo(i) ==
    {SubSeq(text, a, b) : a \in 1..(i + 1), b \in 1..(i + 1)} \ {<<>>}

\* C19: after phase i the non-empty strings spelled from the root are
\* exactly the non-empty substrings of text[0..i].
C19_Online ==
    (pc = "for" /\ pos >= 0) => Spelled = SubstringsUpTo(pos)

\* a phase before the last has ended, by Rule 3, with an internal node in
\* the tree
C19_Witness ==
    /\ pc = "for"
    /\ pos >= 2
    /\ pos + 1 < size
    /\ remainingSuffixCount >= 1
    /\ Internals # {}

\* ---------------------------------------------------------- second build
\* shape, edge ranges and suffix indices of the tree under the root: for
\* every node its parent's path, its start, its end value and suffixIndex
Shape ==
    {<<PathStr(Parent(n)), nodes[n].start, EndVal(n), nodes[n].suffixIndex>>
        : n \in Reach \ {root}}

\* build_suffix_tree called again on the same object; hist.first keeps the
\* tree the previous call left
Rebuild ==
    /\ pc \in {"built", "raised"}
    /\ hist.builds < MaxBuilds
    /\ BuildBody
    /\ hist' = [builds |-> hist.builds + 1, first |-> Shape]

NextRebuild ==
    \/ Construct
    \/ Annotate
    \/ Rebuild

SpecRebuild == Init /\ [][NextRebuild]_vars

\* C15: a second build_suffix_tree() on the same object starts with
\* activeLength = 0 and remainingSuffixCount = 0 at the root and leaves a
\* tree with the shape, edge ranges and suffix indices of the first one.
C15_RebuildIsFresh ==
    /\ (hist.builds >= 2 /\ pc = "for" /\ pos = -1) =>
           /\ activeNode = root
           /\ activeLength = 0
           /\ remainingSuffixCount = 0
    /\ (hist.builds >= 2 /\ pc = "built") => Shape = hist.first
====
